---- MODULE Spec2Model ----
(***************************************************************************)
(* A model of two parts of PennyLane:                                      *)
(*   - the Multiplier template (templates/subroutines/multiplier.py):      *)
(*     its constructor's validation, its decomposition, and the action of  *)
(*     the decomposition on computational-basis states;                    *)
(*   - the parameter-free qutrit operations TShift, TClock, TAdd, TSWAP    *)
(*     (ops/qutrit/non_parametric_ops.py): matrices, pow and adjoint.      *)
(***************************************************************************)
EXTENDS Integers, Sequences, FiniteSets, TLC

(***************************************************************************)
(* Bounds of the model.                                                    *)
(***************************************************************************)
\* the widest x register
MaxN == 2
\* how many work wires beyond len(x_wires) + 2 a caller may pass
MaxExtra == 1
\* the multiplier k is drawn from -MaxK .. MaxK
MaxK == 3

(***************************************************************************)
(* Python values.                                                          *)
(***************************************************************************)
\* None (an omitted mod, a missing work wire) is the empty tuple; a given
\* integer argument m is the 1-tuple <<m>>.
None == <<>>

RECURSIVE gcd(_, _)
gcd(a, b) == IF b = 0 THEN a ELSE gcd(b, a % b)

\* seq[a:b] with 0 <= a, as Python slices: clipped to the sequence.
Slice(seq, a, b) ==
    LET hi == IF b < Len(seq) THEN b ELSE Len(seq)
    IN  IF a >= hi THEN <<>> ELSE SubSeq(seq, a + 1, hi)

InSeq(w, seq) == \E i \in 1..Len(seq) : seq[i] = w

\* pow(k, -1, mod): the inverse of k modulo mod in 0..mod-1, or a ValueError
\* ("base is not invertible for the given modulus"), modelled as -1.
NotInvertible == 0 - 1

ModInverse(k, mod) ==
    IF \E v \in 0..(mod - 1) : (k * v) % mod = 1 % mod
    THEN CHOOSE v \in 0..(mod - 1) : (k * v) % mod = 1 % mod
    ELSE NotInvertible

(***************************************************************************)
(* Multiplier.__init__                                                     *)
(***************************************************************************)
Raise(kind, msg) == [status |-> kind, msg |-> msg]

\* A faulty overlap test that looks at the first x wire only.
WiresOverlap_FirstOnly(x_wires, work_wires) ==
    x_wires # <<>> /\ InSeq(x_wires[1], work_wires)

\* line 97
WiresOverlap(x_wires, work_wires) ==
    \E i \in 1..Len(x_wires) : InSeq(x_wires[i], work_wires)

\* lines 100-101
DefaultMod(mod, x_wires) ==
    IF mod = None THEN 2 ^ Len(x_wires) ELSE mod[1]

\* A faulty size test that asks for one more work wire instead of two.
NeedsTwoMoreWorkWires_OffByOne(mod, x_wires, work_wires) ==
    mod # 2 ^ Len(x_wires) /\ Len(work_wires) < Len(x_wires) + 1

\* line 102
NeedsTwoMoreWorkWires(mod, x_wires, work_wires) ==
    mod # 2 ^ Len(x_wires) /\ Len(work_wires) < Len(x_wires) + 2

\* line 104
TooFewWorkWires(x_wires, work_wires) ==
    Len(work_wires) < Len(x_wires)

\* A faulty modulus test that allows one bit too many.
ModTooLarge_OffByOne(mod, x_wires) ==
    mod > 2 ^ (Len(x_wires) + 1)

\* line 106 (x_wires always has a length here)
ModTooLarge(mod, x_wires) ==
    mod > 2 ^ Len(x_wires)

\* A constructor that forgets to reduce k.
ReduceK_NotReduced(k, mod) == k

\* line 109
ReduceK(k, mod) == k % mod

\* A faulty invertibility test that only turns down k = 0.
NoInverse_OnlyZero(k, mod) == k = 0

\* line 110
NoInverse(k, mod) == gcd(k, mod) # 1

Multiplier_init(k, x_wires, mod, work_wires) ==
    IF WiresOverlap(x_wires, work_wires)
    THEN Raise("ValueError", "None of the wire in work_wires should be included in x_wires.")
    ELSE LET mod1 == DefaultMod(mod, x_wires) IN
      IF NeedsTwoMoreWorkWires(mod1, x_wires, work_wires)
      THEN Raise("ValueError", "Multiplier needs as many work_wires as x_wires plus two.")
      ELSE IF TooFewWorkWires(x_wires, work_wires)
      THEN Raise("ValueError", "Multiplier needs as many work_wires as x_wires.")
      ELSE IF ModTooLarge(mod1, x_wires)
      THEN Raise("ValueError", "Multiplier must have enough wires to represent mod.")
      ELSE LET k1 == ReduceK(k, mod1) IN
        IF NoInverse(k1, mod1)
        THEN Raise("ValueError", "The operator cannot be built because k has no inverse modulo mod.")
        ELSE [status |-> "ok",
              hyperparameters |-> [k |-> k1, mod |-> mod1,
                                   work_wires |-> work_wires, x_wires |-> x_wires],
              wires |-> x_wires \o work_wires]

\* lines 124-126: no data, and the hyperparameters as (key, value) pairs in
\* the order __init__ stored them
Multiplier_flatten(self) ==
    [data |-> <<>>,
     metadata |-> << <<"k", self.hyperparameters.k>>,
                     <<"mod", self.hyperparameters.mod>>,
                     <<"work_wires", self.hyperparameters.work_wires>>,
                     <<"x_wires", self.hyperparameters.x_wires>> >>]

\* dict(metadata)[key]
DictGet(metadata, key) ==
    metadata[CHOOSE i \in 1..Len(metadata) : metadata[i][1] = key][2]

\* An _unflatten that passes the two registers by position, in the order
\* they were stored, and so exchanges them.
Multiplier_unflatten_ByPosition(data, metadata) ==
    Multiplier_init(metadata[1][2], metadata[3][2], <<metadata[2][2]>>, metadata[4][2])

\* lines 128-131: cls(**dict(metadata)); mod is always given
Multiplier_unflatten(data, metadata) ==
    Multiplier_init(DictGet(metadata, "k"), DictGet(metadata, "x_wires"),
                    <<DictGet(metadata, "mod")>>, DictGet(metadata, "work_wires"))

\* lines 146-149: the wires property
Multiplier_wires(self) == self.hyperparameters.x_wires \o self.hyperparameters.work_wires

(***************************************************************************)
(* The operators a decomposition is made of.                               *)
(***************************************************************************)
QFT(wires) == [name |-> "QFT", wires |-> wires]

PhaseAdder(k, x_wires, mod, work_wire) ==
    [name |-> "PhaseAdder", k |-> k, x_wires |-> x_wires, mod |-> mod,
     work_wire |-> work_wire]

ControlledSequence(base, control) ==
    [name |-> "ControlledSequence", base |-> base, control |-> control]

Adjoint(base) == [name |-> "Adjoint", base |-> base]

SWAP(wires) == [name |-> "SWAP", wires |-> wires]

\* An adjoint that forgets to reverse the order.
adjoint_fn_NotReversed(ops) ==
    [i \in 1..Len(ops) |-> Adjoint(ops[i])]

\* qml.adjoint(fn)(...): the operators fn queues, each adjointed, in reverse.
adjoint_fn(ops) ==
    [i \in 1..Len(ops) |-> Adjoint(ops[Len(ops) + 1 - i])]

(***************************************************************************)
(* Multiplier.compute_decomposition                                        *)
(***************************************************************************)
mul_out_k_mod(k, x_wires, mod, work_wire_aux, wires_aux) ==
    << QFT(wires_aux),
       ControlledSequence(PhaseAdder(k, wires_aux, mod, work_wire_aux), x_wires),
       Adjoint(QFT(wires_aux)) >>

\* lines 184-191: how the work register is split
work_wire_aux(x_wires, mod, work_wires) ==
    IF mod # 2 ^ Len(x_wires) THEN Slice(work_wires, 0, 1) ELSE None

\* A split that leaves the phase adder's work wire inside the auxiliary
\* register.
wires_aux_WholeRegister(x_wires, mod, work_wires) ==
    IF mod # 2 ^ Len(x_wires)
    THEN Slice(work_wires, 0, Len(work_wires))
    ELSE Slice(work_wires, 0, Len(x_wires))

wires_aux(x_wires, mod, work_wires) ==
    IF mod # 2 ^ Len(x_wires)
    THEN Slice(work_wires, 1, Len(work_wires))
    ELSE Slice(work_wires, 0, Len(x_wires))

wires_aux_swap(x_wires, mod, work_wires) ==
    IF mod # 2 ^ Len(x_wires)
    THEN Slice(wires_aux(x_wires, mod, work_wires), 1, Len(work_wires))
    ELSE wires_aux(x_wires, mod, work_wires)

Min(a, b) == IF a < b THEN a ELSE b

\* lines 193-194: zip stops at the shorter of the two
swaps(x_wires, aux_swap) ==
    [i \in 1..Min(Len(x_wires), Len(aux_swap)) |-> SWAP(<<x_wires[i], aux_swap[i]>>)]

compute_decomposition(k, x_wires, mod, work_wires) ==
    LET wwa   == work_wire_aux(x_wires, mod, work_wires)
        wa    == wires_aux(x_wires, mod, work_wires)
        was   == wires_aux_swap(x_wires, mod, work_wires)
        inv_k == ModInverse(k, mod)
    IN  IF inv_k = NotInvertible
        THEN Raise("ValueError", "base is not invertible for the given modulus")
        ELSE [status |-> "ok",
              op_list |-> mul_out_k_mod(k, x_wires, mod, wwa, wa)
                          \o swaps(x_wires, was)
                          \o adjoint_fn(mul_out_k_mod(inv_k, x_wires, mod, wwa, wa))]

\* line 152
decomposition(op) ==
    compute_decomposition(op.hyperparameters.k, op.hyperparameters.x_wires,
                          op.hyperparameters.mod, op.hyperparameters.work_wires)

(***************************************************************************)
(* Computational-basis states of the wires, most significant wire first.   *)
(***************************************************************************)
NumWires == MaxN + MaxN + 2 + MaxExtra
AllWires == 0..(NumWires - 1)

ZeroState == [w \in AllWires |-> 0]

RECURSIVE RegValue(_, _)
RegValue(reg, wires) ==
    IF wires = <<>> THEN 0
    ELSE 2 * RegValue(reg, SubSeq(wires, 1, Len(wires) - 1)) + reg[wires[Len(wires)]]

SetReg(reg, wires, value) ==
    [w \in AllWires |->
        IF InSeq(w, wires)
        THEN LET i == CHOOSE j \in 1..Len(wires) : wires[j] = w
             IN  (value \div (2 ^ (Len(wires) - i))) % 2
        ELSE reg[w]]

\* QFT, ControlledSequence(PhaseAdder(k, aux, mod, work), control), QFT^-1:
\* add value(control) * k modulo mod into aux.  A PhaseAdder is specified
\* on values below mod only; above, any outcome in the same subspace.
AddInto(reg, cs, sign) ==
    LET pa  == cs.base
        aux == RegValue(reg, pa.x_wires)
        x   == RegValue(reg, cs.control)
    IN  IF aux < pa.mod
        THEN {SetReg(reg, pa.x_wires, (aux + sign * x * pa.k) % pa.mod)}
        ELSE {SetReg(SetReg(reg, pa.x_wires, v), pa.work_wire, b) :
                 v \in pa.mod..(2 ^ Len(pa.x_wires) - 1), b \in 0..1}

IsMulOut(ops, i) ==
    /\ i + 2 <= Len(ops)
    /\ ops[i].name = "QFT"
    /\ ops[i + 1].name = "ControlledSequence"
    /\ ops[i + 1].base.name = "PhaseAdder"
    /\ ops[i + 1].base.x_wires = ops[i].wires
    /\ ops[i + 2] = Adjoint(ops[i])

IsAdjMulOut(ops, i) ==
    /\ i + 2 <= Len(ops)
    /\ ops[i].name = "Adjoint"
    /\ ops[i + 1].name = "Adjoint"
    /\ ops[i + 2].name = "Adjoint"
    /\ IsMulOut(<<ops[i + 2].base, ops[i + 1].base, ops[i].base>>, 1)

ApplySWAP(reg, op) ==
    [reg EXCEPT ![op.wires[1]] = reg[op.wires[2]], ![op.wires[2]] = reg[op.wires[1]]]

(***************************************************************************)
(* The qutrit operations TShift, TClock, TAdd, TSWAP.  An instance is its  *)
(* class name, its wires and its inverse flag (False when constructed).    *)
(***************************************************************************)
\* the exponent of pow is drawn from -MaxZ .. MaxZ
MaxZ == 4

TShift(wires) == [name |-> "TShift", wires |-> wires, inverse |-> FALSE]
TClock(wires) == [name |-> "TClock", wires |-> wires, inverse |-> FALSE]
TAdd(wires)   == [name |-> "TAdd", wires |-> wires, inverse |-> FALSE]
TSWAP(wires)  == [name |-> "TSWAP", wires |-> wires, inverse |-> FALSE]

TShift_compute_matrix ==
    << <<0, 0, 1>>,
       <<1, 0, 0>>,
       <<0, 1, 0>> >>

\* The transposed matrix: it subtracts the control from the target.
TAdd_compute_matrix_Transposed ==
    << <<1, 0, 0, 0, 0, 0, 0, 0, 0>>,
       <<0, 1, 0, 0, 0, 0, 0, 0, 0>>,
       <<0, 0, 1, 0, 0, 0, 0, 0, 0>>,
       <<0, 0, 0, 0, 1, 0, 0, 0, 0>>,
       <<0, 0, 0, 0, 0, 1, 0, 0, 0>>,
       <<0, 0, 0, 1, 0, 0, 0, 0, 0>>,
       <<0, 0, 0, 0, 0, 0, 0, 0, 1>>,
       <<0, 0, 0, 0, 0, 0, 1, 0, 0>>,
       <<0, 0, 0, 0, 0, 0, 0, 1, 0>> >>

TAdd_compute_matrix ==
    << <<1, 0, 0, 0, 0, 0, 0, 0, 0>>,
       <<0, 1, 0, 0, 0, 0, 0, 0, 0>>,
       <<0, 0, 1, 0, 0, 0, 0, 0, 0>>,
       <<0, 0, 0, 0, 0, 1, 0, 0, 0>>,
       <<0, 0, 0, 1, 0, 0, 0, 0, 0>>,
       <<0, 0, 0, 0, 1, 0, 0, 0, 0>>,
       <<0, 0, 0, 0, 0, 0, 0, 1, 0>>,
       <<0, 0, 0, 0, 0, 0, 0, 0, 1>>,
       <<0, 0, 0, 0, 0, 0, 1, 0, 0>> >>

\* The matrix with its second and third rows exchanged.
TSWAP_compute_matrix_RowsExchanged ==
    << <<1, 0, 0, 0, 0, 0, 0, 0, 0>>,
       <<0, 0, 0, 0, 0, 0, 1, 0, 0>>,
       <<0, 0, 0, 1, 0, 0, 0, 0, 0>>,
       <<0, 1, 0, 0, 0, 0, 0, 0, 0>>,
       <<0, 0, 0, 0, 1, 0, 0, 0, 0>>,
       <<0, 0, 0, 0, 0, 0, 0, 1, 0>>,
       <<0, 0, 1, 0, 0, 0, 0, 0, 0>>,
       <<0, 0, 0, 0, 0, 1, 0, 0, 0>>,
       <<0, 0, 0, 0, 0, 0, 0, 0, 1>> >>

TSWAP_compute_matrix ==
    << <<1, 0, 0, 0, 0, 0, 0, 0, 0>>,
       <<0, 0, 0, 1, 0, 0, 0, 0, 0>>,
       <<0, 0, 0, 0, 0, 0, 1, 0, 0>>,
       <<0, 1, 0, 0, 0, 0, 0, 0, 0>>,
       <<0, 0, 0, 0, 1, 0, 0, 0, 0>>,
       <<0, 0, 0, 0, 0, 0, 0, 1, 0>>,
       <<0, 0, 1, 0, 0, 0, 0, 0, 0>>,
       <<0, 0, 0, 0, 0, 1, 0, 0, 0>>,
       <<0, 0, 0, 0, 0, 0, 0, 0, 1>> >>

\* The integer matrices; TClock's matrix is complex and is not among them.
HasIntMatrix(o) == o.name \in {"TShift", "TAdd", "TSWAP"}

compute_matrix(o) ==
    CASE o.name = "TShift" -> TShift_compute_matrix
      [] o.name = "TAdd"   -> TAdd_compute_matrix
      [] o.name = "TSWAP"  -> TSWAP_compute_matrix

\* Matrix times column vector; rows and columns are numbered from 0 in the
\* source and from 1 here.
RECURSIVE Dot(_, _, _)
Dot(row, v, n) == IF n = 0 THEN 0 ELSE Dot(row, v, n - 1) + row[n] * v[n]

MatVec(M, v) == [r \in 1..Len(M) |-> Dot(M[r], v, Len(v))]

\* The basis state with index c (from 0) in dimension d.
Basis(d, c) == [r \in 1..d |-> IF r = c + 1 THEN 1 ELSE 0]

\* An adjoint that sets the flag instead of toggling it.
TShift_adjoint_AlwaysInverse(self) == [TShift(self.wires) EXCEPT !.inverse = TRUE]

\* An adjoint that returns a fresh instance and leaves its flag unset.
TAdd_adjoint_NotToggled(self) == TAdd(self.wires)

TShift_adjoint(self) == [TShift(self.wires) EXCEPT !.inverse = ~self.inverse]
TClock_adjoint(self) == [TClock(self.wires) EXCEPT !.inverse = ~self.inverse]
TAdd_adjoint(self)   == [TAdd(self.wires) EXCEPT !.inverse = ~self.inverse]
TSWAP_adjoint(self)  == TSWAP(self.wires)

adjoint(o) ==
    CASE o.name = "TShift" -> TShift_adjoint(o)
      [] o.name = "TClock" -> TClock_adjoint(o)
      [] o.name = "TAdd"   -> TAdd_adjoint(o)
      [] o.name = "TSWAP"  -> TSWAP_adjoint(o)

\* Operator.pow, the base class: no operator for z = 0, the operator itself
\* for z = 1, and no closed form otherwise: it raises PowUndefinedError,
\* written here as a list holding the error in place of operators.
PowUndefined == <<[name |-> "PowUndefinedError"]>>

Operator_pow(self, z) ==
    IF z = 0 THEN <<>> ELSE IF z = 1 THEN <<self>> ELSE PowUndefined

\* A pow whose remainder takes the sign of z, as C's % does.
TShift_pow_Truncating(self, z) ==
    LET z_mod3 == IF z < 0 THEN 0 - ((0 - z) % 3) ELSE z % 3
    IN  IF z_mod3 < 2 THEN Operator_pow(self, z_mod3) ELSE <<TShift_adjoint(self)>>

\* z is an int
TShift_pow(self, z) ==
    LET z_mod3 == z % 3
    IN  IF z_mod3 < 2 THEN Operator_pow(self, z_mod3) ELSE <<TShift_adjoint(self)>>

\* A pow that reduces the exponent modulo 2, as TSWAP's does.
TClock_pow_Mod2(self, z) == Operator_pow(self, z % 2)

TClock_pow(self, z) ==
    LET z_mod3 == z % 3
    IN  IF z_mod3 < 2 THEN Operator_pow(self, z_mod3) ELSE <<TClock_adjoint(self)>>

TAdd_pow(self, z) ==
    LET z_mod3 == z % 3
    IN  IF z_mod3 < 2 THEN Operator_pow(self, z_mod3) ELSE <<TAdd_adjoint(self)>>

TSWAP_pow(self, z) == Operator_pow(self, z % 2)

pow(o, z) ==
    CASE o.name = "TShift" -> TShift_pow(o, z)
      [] o.name = "TClock" -> TClock_pow(o, z)
      [] o.name = "TAdd"   -> TAdd_pow(o, z)
      [] o.name = "TSWAP"  -> TSWAP_pow(o, z)

TAdd_control_wires(self) == <<self.wires[1]>>

num_wires(name) == IF name \in {"TShift", "TClock"} THEN 1 ELSE 2

(***************************************************************************)
(* Complex numbers.  Every entry and eigenvalue of the qutrit operations   *)
(* is an integer combination of 1 and OMEGA = exp(2*pi*i/3); a + b*OMEGA   *)
(* is written <<a, b>>, and OMEGA^2 = -1 - OMEGA gives exact arithmetic.   *)
(***************************************************************************)
OMEGA == <<0, 1>>

CZero == <<0, 0>>
COne == <<1, 0>>
AsComplex(x) == <<x, 0>>

CAdd(a, b) == <<a[1] + b[1], a[2] + b[2]>>
CNeg(a) == <<0 - a[1], 0 - a[2]>>
CMul(a, b) == <<a[1] * b[1] - a[2] * b[2], a[1] * b[2] + a[2] * b[1] - a[2] * b[2]>>
\* conj(OMEGA) = OMEGA^2
CConj(a) == <<a[1] - a[2], 0 - a[2]>>

RECURSIVE CPow(_, _)
CPow(a, n) == IF n = 0 THEN COne ELSE CMul(CPow(a, n - 1), a)

\* np.diag
Diag(v) == [r \in 1..Len(v) |-> [c \in 1..Len(v) |-> IF r = c THEN v[r] ELSE CZero] \o <<>>] \o <<>>

TClock_compute_matrix == Diag(<<COne, OMEGA, CPow(OMEGA, 2)>>)

\* The canonical matrix of an instance, as compute_matrix() gives it, with
\* complex entries for every class.
canonical_matrix(o) ==
    IF o.name = "TClock"
    THEN TClock_compute_matrix
    ELSE LET M == compute_matrix(o)
         IN  [r \in 1..Len(M) |-> [c \in 1..Len(M) |-> AsComplex(M[r][c])] \o <<>>] \o <<>>

ConjTranspose(M) == [r \in 1..Len(M) |-> [c \in 1..Len(M) |-> CConj(M[c][r])] \o <<>>] \o <<>>

\* Operation.matrix, the base class: the canonical matrix, conjugated and
\* transposed when the inverse flag is set.
matrix(o) == IF o.inverse THEN ConjTranspose(canonical_matrix(o)) ELSE canonical_matrix(o)

RECURSIVE CSum(_, _)
CSum(term, n) == IF n = 0 THEN CZero ELSE CAdd(CSum(term, n - 1), term[n])

CMatMul(A, B) ==
    [r \in 1..Len(A) |->
        [c \in 1..Len(A) |-> CSum([n \in 1..Len(A) |-> CMul(A[r][n], B[n][c])], Len(A))] \o <<>>] \o <<>>

CIdentity(d) == Diag([r \in 1..d |-> COne])

RECURSIVE CMatPow(_, _)
CMatPow(M, n) == IF n = 0 THEN CIdentity(Len(M)) ELSE CMatMul(CMatPow(M, n - 1), M)

\* The eigenvalues, in the order the source lists them.
TShift_compute_eigvals == <<OMEGA, CPow(OMEGA, 2), COne>>

TClock_compute_eigvals == <<COne, OMEGA, CPow(OMEGA, 2)>>

\* The eigenvalues of TShift repeated three times.
TAdd_compute_eigvals_ShiftRepeated ==
    <<OMEGA, CPow(OMEGA, 2), COne, OMEGA, CPow(OMEGA, 2), COne, OMEGA, CPow(OMEGA, 2), COne>>

TAdd_compute_eigvals ==
    <<OMEGA, CPow(OMEGA, 2), COne, OMEGA, CPow(OMEGA, 2), COne, COne, COne, COne>>

TSWAP_compute_eigvals ==
    <<AsComplex(1), AsComplex(0 - 1), AsComplex(1), AsComplex(0 - 1), AsComplex(1),
      AsComplex(0 - 1), AsComplex(1), AsComplex(1), AsComplex(1)>>

compute_eigvals(o) ==
    CASE o.name = "TShift" -> TShift_compute_eigvals
      [] o.name = "TClock" -> TClock_compute_eigvals
      [] o.name = "TAdd"   -> TAdd_compute_eigvals
      [] o.name = "TSWAP"  -> TSWAP_compute_eigvals

(***************************************************************************)
(* PrepSelPrep, the block encoding of a linear combination of unitaries.   *)
(* Numbers are complex rationals (re + im*i)/den, written <<re, im, den>>  *)
(* with den > 0 and in lowest terms, so that equal numbers are equal       *)
(* values.  A non-negative real amplitude is written by its square,        *)
(* Amp(x) standing for sqrt(x), which keeps square roots exact.            *)
(***************************************************************************)
\* an LCU has 1 .. MaxTerms terms
MaxTerms == 3

Abs(x) == IF x < 0 THEN 0 - x ELSE x

Rat(re, im, den) ==
    LET g == gcd(gcd(Abs(re), Abs(im)), den)
    IN  <<re \div g, im \div g, den \div g>>

RZero == <<0, 0, 1>>
ROne == <<1, 0, 1>>

RAdd(a, b) == Rat(a[1] * b[3] + b[1] * a[3], a[2] * b[3] + b[2] * a[3], a[3] * b[3])
RMul(a, b) == Rat(a[1] * b[1] - a[2] * b[2], a[1] * b[2] + a[2] * b[1], a[3] * b[3])

\* a / b for a positive real b
RDiv(a, b) == Rat(a[1] * b[3], a[2] * b[3], a[3] * b[1])

\* The square root of a perfect square.
ISqrt(x) == CHOOSE r \in 0..x : r * r = x

\* |a|, for the numbers whose modulus is rational
RAbs(a) == Rat(ISqrt(a[1] * a[1] + a[2] * a[2]), 0, a[3])

RECURSIVE RSum(_, _)
RSum(terms, n) == IF n = 0 THEN RZero ELSE RAdd(RSum(terms, n - 1), terms[n])

Amp(x) == [sqrt_of |-> x]

\* The unitaries of an LCU: Pauli operators on one wire.
PauliX(w) == [name |-> "PauliX", wires |-> <<w>>]
PauliY(w) == [name |-> "PauliY", wires |-> <<w>>]
PauliZ(w) == [name |-> "PauliZ", wires |-> <<w>>]

\* A unitary multiplied by a phase.
Phased(phase, base) == [name |-> "Phased", phase |-> phase, base |-> base, wires |-> base.wires]

StatePrep(state, wires) == [name |-> "StatePrep", state |-> state, wires |-> wires]

Select(ops, control) == [name |-> "Select", ops |-> ops, control |-> control]

LinearCombination(coeffs, ops) == [coeffs |-> coeffs, ops |-> ops]

\* An overlap test that looks at the first unitary only.
ControlInOps_FirstOpOnly(lcu, control) ==
    \E i \in 1..Len(control) : InSeq(control[i], lcu.ops[1].wires)

\* some control wire is a wire of some unitary of the LCU
ControlInOps(lcu, control) ==
    \E i \in 1..Len(control) : \E j \in 1..Len(lcu.ops) : InSeq(control[i], lcu.ops[j].wires)

PrepSelPrep_init(lcu, control, jit) ==
    IF ControlInOps(lcu, control)
    THEN Raise("ValueError", "Control wires should be different from operation wires.")
    ELSE [status |-> "ok",
          hyperparameters |-> [lcu |-> lcu, control |-> control, jit |-> jit]]

\* The sum of the absolute values of the coefficients.
PrepSelPrep_normalization_factor(lcu) ==
    RSum([i \in 1..Len(lcu.coeffs) |-> RAbs(lcu.coeffs[i])], Len(lcu.coeffs))

\* A preprocessing that keeps the unitaries as they are and drops the phases
\* of the coefficients.
PrepSelPrep_preprocess_lcu_PhaseDropped(lcu) ==
    LET norm == PrepSelPrep_normalization_factor(lcu)
    IN  [coeffs |-> [i \in 1..Len(lcu.coeffs) |-> Amp(RDiv(RAbs(lcu.coeffs[i]), norm))],
         ops    |-> [i \in 1..Len(lcu.ops) |-> Phased(ROne, lcu.ops[i])]]

\* The amplitudes sqrt(|c_i|) normalised to norm 1, that is sqrt(|c_i| / sum
\* of |c_j|), and the unitaries with the phase c_i / |c_i| of their
\* coefficient folded in.
PrepSelPrep_preprocess_lcu(lcu) ==
    LET norm == PrepSelPrep_normalization_factor(lcu)
    IN  [coeffs |-> [i \in 1..Len(lcu.coeffs) |-> Amp(RDiv(RAbs(lcu.coeffs[i]), norm))],
         ops    |-> [i \in 1..Len(lcu.ops) |->
                        Phased(RDiv(lcu.coeffs[i], RAbs(lcu.coeffs[i])), lcu.ops[i])]]

IsPowerOf2(n) == \E e \in 0..n : 2 ^ e = n

\* A test that misses negative coefficients.
NotPositiveReal_ImaginaryOnly(c) == c[2] # 0

NotPositiveReal(c) == c[2] # 0 \/ c[1] < 0

NormIsOne(coeffs) ==
    RSum([i \in 1..Len(coeffs) |-> RMul(coeffs[i], coeffs[i])], Len(coeffs)) = ROne

\* The diagnostics the jit=True path can end with; none when the LCU passes.
\* The norm is tested last; which of the two other tests comes first is not
\* known, so that either diagnostic is possible when both fail.
JitDiagnostics(lcu) ==
    LET notPow2 == ~IsPowerOf2(Len(lcu.coeffs))
        notPos  == \E i \in 1..Len(lcu.coeffs) : NotPositiveReal(lcu.coeffs[i])
    IN  IF notPow2 \/ notPos
        THEN (IF notPow2 THEN {"Number of terms must be a power of 2."} ELSE {})
             \cup (IF notPos THEN {"Coefficients must be positive real numbers."} ELSE {})
        ELSE IF ~NormIsOne(lcu.coeffs)
             THEN {"Coefficients must have norm 1."}
             ELSE {}

\* A decomposition that applies the Select before the state preparation.
PrepSelPrep_decomposition_ops_SelectFirst(coeffs, ops, control) ==
    << Select(ops, control),
       StatePrep(coeffs, control),
       Adjoint(StatePrep(coeffs, control)) >>

PrepSelPrep_decomposition_ops(coeffs, ops, control) ==
    << StatePrep(coeffs, control),
       Select(ops, control),
       Adjoint(StatePrep(coeffs, control)) >>

\* The outcomes of decomposition(): with jit the coefficients must already
\* be amplitudes and are used as they are; without it the LCU is
\* preprocessed.
PrepSelPrep_compute_decomposition(lcu, control, jit) ==
    IF jit
    THEN IF JitDiagnostics(lcu) # {}
         THEN { Raise("ValueError", msg) : msg \in JitDiagnostics(lcu) }
         ELSE { [status |-> "ok",
                 op_list |-> PrepSelPrep_decomposition_ops(
                                 [i \in 1..Len(lcu.coeffs) |->
                                     Amp(RMul(lcu.coeffs[i], lcu.coeffs[i]))],
                                 lcu.ops, control)] }
    ELSE LET pre == PrepSelPrep_preprocess_lcu(lcu)
         IN  { [status |-> "ok",
                op_list |-> PrepSelPrep_decomposition_ops(pre.coeffs, pre.ops, control)] }

\* Matrices of the unitaries.
Pauli_compute_matrix(name) ==
    CASE name = "PauliX" -> << <<RZero, ROne>>, <<ROne, RZero>> >>
      [] name = "PauliY" -> << <<RZero, Rat(0, 0 - 1, 1)>>, <<Rat(0, 1, 1), RZero>> >>
      [] name = "PauliZ" -> << <<ROne, RZero>>, <<RZero, Rat(0 - 1, 0, 1)>> >>

Identity2 == << <<ROne, RZero>>, <<RZero, ROne>> >>

Kron(A, B) ==
    LET da == Len(A)
        db == Len(B)
    IN  [r \in 1..(da * db) |->
            [c \in 1..(da * db) |->
                RMul(A[((r - 1) \div db) + 1][((c - 1) \div db) + 1],
                     B[((r - 1) % db) + 1][((c - 1) % db) + 1])] \o <<>>] \o <<>>

\* The matrix of a unitary on the wires w_1 .. w_n, first wire most
\* significant.
RECURSIVE OpMatrix(_, _, _)
OpMatrix(o, wire_order, n) ==
    IF o.name = "Phased"
    THEN LET B == OpMatrix(o.base, wire_order, n)
         IN  [r \in 1..Len(B) |-> [c \in 1..Len(B) |-> RMul(o.phase, B[r][c])] \o <<>>] \o <<>>
    ELSE IF n = 0 THEN << <<ROne>> >>
    ELSE Kron(OpMatrix(o, wire_order, n - 1),
              IF InSeq(wire_order[n], o.wires) THEN Pauli_compute_matrix(o.name) ELSE Identity2)

\* sum of weight_i * matrix_i, entry by entry
WeightedSum(weights, mats, d) ==
    [r \in 1..d |->
        [c \in 1..d |->
            RSum([i \in 1..Len(mats) |-> RMul(weights[i], mats[i][r][c])], Len(mats))] \o <<>>] \o <<>>

\* qml.matrix(lcu): the sum of coefficient times unitary
LCUMatrix(lcu, wire_order) ==
    WeightedSum(lcu.coeffs,
                [i \in 1..Len(lcu.ops) |-> OpMatrix(lcu.ops[i], wire_order, Len(wire_order))],
                2 ^ Len(wire_order))

\* The top-left block of the matrix of StatePrep(a), Select(ops),
\* Adjoint(StatePrep(a)): the control register leaves |0> with amplitude a_i
\* on |i>, Select applies ops[i] there, and the adjoint takes |i> back to |0>
\* with amplitude conj(a_i); the amplitudes are real, conj(a_i) * a_i being
\* the square they are written by.
TopLeftBlock(op_list, wire_order) ==
    WeightedSum([i \in 1..Len(op_list[1].state) |-> op_list[1].state[i].sqrt_of],
                [i \in 1..Len(op_list[2].ops) |->
                    OpMatrix(op_list[2].ops[i], wire_order, Len(wire_order))],
                2 ^ Len(wire_order))

(***************************************************************************)
(* The state machine: construct, decompose, embed x, run the operators.    *)
(***************************************************************************)
VARIABLES args, pc, op, dec, x_in, reg, ip, op2,
          q_op, q_z, q_col, q_pc, q_pow, q_img, q_img2, q_adj, q_adj2, q_eig,
          p_lcu, p_control, p_jit, p_pc, p_op, p_dec, p_block

mvars == <<args, pc, op, dec, x_in, reg, ip, op2>>
qvars == <<q_op, q_z, q_col, q_pc, q_pow, q_img, q_img2, q_adj, q_adj2, q_eig>>
pvars == <<p_lcu, p_control, p_jit, p_pc, p_op, p_dec, p_block>>
vars == <<mvars, qvars, pvars>>

NoOp == [status |-> "none"]

XWiresChoices == { [i \in 1..n |-> i - 1] : n \in 1..MaxN }

\* Fresh work wires, with at most one of them replaced by a wire of x_wires.
WorkWiresChoices(xw) ==
    UNION { UNION { { [i \in 1..L |-> IF i = j THEN xw[p] ELSE Len(xw) + i - 1] :
                        p \in 1..Len(xw) } : j \in 0..L } :
            L \in 0..(Len(xw) + 2 + MaxExtra) }

\* mod is a modulus: omitted, or a positive integer, some too large for x_wires.
ModChoices == {None} \cup { <<m>> : m \in 1..(2 ^ MaxN + 1) }

ArgChoices ==
    UNION { { [k |-> k, x_wires |-> xw, mod |-> m, work_wires |-> ww] :
                k \in (0 - MaxK)..MaxK, m \in ModChoices, ww \in WorkWiresChoices(xw) } :
            xw \in XWiresChoices }

\* No qutrit operation is in play while a Multiplier is.
QIdle ==
    /\ q_op = TShift(<<0>>)
    /\ q_z = 0
    /\ q_col = 0
    /\ q_pc = "idle"
    /\ q_pow = <<>>
    /\ q_img = <<>>
    /\ q_img2 = <<>>
    /\ q_adj = NoOp
    /\ q_adj2 = NoOp
    /\ q_eig = <<>>

PIdle ==
    /\ p_lcu = LinearCombination(<<ROne>>, <<PauliX(2)>>)
    /\ p_control = <<0>>
    /\ p_jit = FALSE
    /\ p_pc = "idle"
    /\ p_op = NoOp
    /\ p_dec = NoOp
    /\ p_block = <<>>

Init ==
    /\ args \in ArgChoices
    /\ pc = "new"
    /\ op = NoOp
    /\ dec = NoOp
    /\ x_in = 0
    /\ reg = ZeroState
    /\ ip = 0
    /\ op2 = NoOp
    /\ QIdle
    /\ PIdle

Construct ==
    /\ pc = "new"
    /\ op' = Multiplier_init(args.k, args.x_wires, args.mod, args.work_wires)
    /\ pc' = IF op'.status = "ok" THEN "constructed" ELSE "rejected"
    /\ UNCHANGED <<args, dec, x_in, reg, ip, op2>>
    /\ UNCHANGED <<qvars, pvars>>

Decompose ==
    /\ pc = "constructed"
    /\ dec' = decomposition(op)
    /\ pc' = IF dec'.status = "ok" THEN "decomposed" ELSE "failed"
    /\ UNCHANGED <<args, op, x_in, reg, ip, op2>>
    /\ UNCHANGED <<qvars, pvars>>

\* Multiplier._unflatten(*op._flatten())
Unflatten ==
    /\ pc = "constructed"
    /\ LET flat == Multiplier_flatten(op)
       IN  op2' = Multiplier_unflatten(flat.data, flat.metadata)
    /\ pc' = "unflattened"
    /\ UNCHANGED <<args, op, dec, x_in, reg, ip>>
    /\ UNCHANGED <<qvars, pvars>>

\* BasisEmbedding(x, wires=x_wires) on the all-zero state, 0 <= x < mod
Embed ==
    /\ pc = "decomposed"
    /\ \E x \in 0..(op.hyperparameters.mod - 1) :
          /\ x_in' = x
          /\ reg' = SetReg(ZeroState, op.hyperparameters.x_wires, x)
    /\ ip' = 1
    /\ pc' = "running"
    /\ UNCHANGED <<args, op, dec, op2>>
    /\ UNCHANGED <<qvars, pvars>>

RunMulOut ==
    /\ pc = "running"
    /\ IsMulOut(dec.op_list, ip)
    /\ reg' \in AddInto(reg, dec.op_list[ip + 1], 1)
    /\ ip' = ip + 3
    /\ UNCHANGED <<args, pc, op, dec, x_in, op2>>
    /\ UNCHANGED <<qvars, pvars>>

RunSWAP ==
    /\ pc = "running"
    /\ ip <= Len(dec.op_list)
    /\ dec.op_list[ip].name = "SWAP"
    /\ reg' = ApplySWAP(reg, dec.op_list[ip])
    /\ ip' = ip + 1
    /\ UNCHANGED <<args, pc, op, dec, x_in, op2>>
    /\ UNCHANGED <<qvars, pvars>>

RunAdjMulOut ==
    /\ pc = "running"
    /\ IsAdjMulOut(dec.op_list, ip)
    /\ reg' \in AddInto(reg, dec.op_list[ip + 1].base, 0 - 1)
    /\ ip' = ip + 3
    /\ UNCHANGED <<args, pc, op, dec, x_in, op2>>
    /\ UNCHANGED <<qvars, pvars>>

Finish ==
    /\ pc = "running"
    /\ ip = Len(dec.op_list) + 1
    /\ pc' = "done"
    /\ UNCHANGED <<args, op, dec, x_in, reg, ip, op2>>
    /\ UNCHANGED <<qvars, pvars>>

Next ==
    \/ Construct
    \/ Decompose
    \/ Unflatten
    \/ Embed
    \/ RunMulOut
    \/ RunSWAP
    \/ RunAdjMulOut
    \/ Finish

Spec == Init /\ [][Next]_vars

(***************************************************************************)
(* The qutrit operations' state machine: an instance, an integer exponent  *)
(* and a basis state are given; pow or the matrix is applied to them.      *)
(***************************************************************************)
QWiresChoices(name) ==
    IF num_wires(name) = 1 THEN {<<0>>, <<1>>} ELSE {<<0, 1>>, <<1, 0>>}

QOpChoices ==
    UNION { { [name |-> nm, wires |-> w, inverse |-> inv] :
                w \in QWiresChoices(nm), inv \in BOOLEAN } :
            nm \in {"TShift", "TClock", "TAdd", "TSWAP"} }

Dim(o) == 3 ^ num_wires(o.name)

MIdle ==
    /\ args = [k |-> 1, x_wires |-> <<0>>, mod |-> None, work_wires |-> <<1>>]
    /\ pc = "idle"
    /\ op = NoOp
    /\ dec = NoOp
    /\ x_in = 0
    /\ reg = ZeroState
    /\ ip = 0
    /\ op2 = NoOp

QInit ==
    /\ q_op \in QOpChoices
    /\ q_z \in (0 - MaxZ)..MaxZ
    /\ q_col \in 0..(Dim(q_op) - 1)
    /\ q_pc = "new"
    /\ q_pow = <<>>
    /\ q_img = <<>>
    /\ q_img2 = <<>>
    /\ q_adj = NoOp
    /\ q_adj2 = NoOp
    /\ q_eig = <<>>
    /\ MIdle
    /\ PIdle

\* q_op.pow(q_z)
QPow ==
    /\ q_pc = "new"
    /\ q_pow' = pow(q_op, q_z)
    /\ q_pc' = "pow"
    /\ UNCHANGED <<q_op, q_z, q_col, q_img, q_img2, q_adj, q_adj2, q_eig>>
    /\ UNCHANGED <<mvars, pvars>>

\* compute_matrix() applied to the basis state q_col, once and twice
QComputeMatrix ==
    /\ q_pc = "new"
    /\ HasIntMatrix(q_op)
    /\ q_img' = MatVec(compute_matrix(q_op), Basis(Dim(q_op), q_col))
    /\ q_img2' = MatVec(compute_matrix(q_op), q_img')
    /\ q_pc' = "matrix"
    /\ UNCHANGED <<q_op, q_z, q_col, q_pow, q_adj, q_adj2, q_eig>>
    /\ UNCHANGED <<mvars, pvars>>

\* q_op.adjoint() and q_op.adjoint().adjoint(); the methods build a new
\* instance and assign nothing to self
QAdjoint ==
    /\ q_pc = "new"
    /\ q_adj' = adjoint(q_op)
    /\ q_adj2' = adjoint(q_adj')
    /\ q_pc' = "adjoint"
    /\ UNCHANGED <<q_op, q_z, q_col, q_pow, q_img, q_img2, q_eig>>
    /\ UNCHANGED <<mvars, pvars>>

\* q_op.compute_eigvals()
QComputeEigvals ==
    /\ q_pc = "new"
    /\ q_eig' = compute_eigvals(q_op)
    /\ q_pc' = "eigvals"
    /\ UNCHANGED <<q_op, q_z, q_col, q_pow, q_img, q_img2, q_adj, q_adj2>>
    /\ UNCHANGED <<mvars, pvars>>

QNext ==
    \/ QPow
    \/ QComputeMatrix
    \/ QAdjoint
    \/ QComputeEigvals

SpecQutrit == QInit /\ [][QNext]_vars


(***************************************************************************)
(* The PrepSelPrep state machine: an LCU, control wires and the jit flag   *)
(* are given; the operator is constructed, decomposed, and the top-left    *)
(* block of the decomposition's matrix is computed.                        *)
(***************************************************************************)
CoeffChoices == {Rat(3, 0, 5), Rat(4, 0, 5), Rat(0 - 4, 0, 5), Rat(3, 4, 5)}

UnitaryChoices == {PauliX(2), PauliY(2), PauliZ(1), PauliZ(0)}

\* control registers wide enough for one basis state per term
ControlChoices(n) == { w \in {<<0>>, <<0, 1>>} : 2 ^ Len(w) >= n }

\* The wires the LCU acts on when it is accepted: those that are not control
\* wires, in increasing order.
TargetWires(control) == IF Len(control) = 1 THEN <<1, 2>> ELSE <<2>>

\* an LCU of n terms, each a coefficient and a unitary, 1 <= n <= MaxTerms
PInit ==
    /\ \E n \in 1..MaxTerms :
          \E cs \in [1..n -> CoeffChoices], us \in [1..n -> UnitaryChoices] :
              p_lcu = LinearCombination(cs, us)
    /\ p_control \in ControlChoices(Len(p_lcu.coeffs))
    /\ p_jit \in BOOLEAN
    /\ p_pc = "new"
    /\ p_op = NoOp
    /\ p_dec = NoOp
    /\ p_block = <<>>
    /\ MIdle
    /\ QIdle

\* PrepSelPrep(lcu, control, jit)
PConstruct ==
    /\ p_pc = "new"
    /\ p_op' = PrepSelPrep_init(p_lcu, p_control, p_jit)
    /\ p_pc' = IF p_op'.status = "ok" THEN "constructed" ELSE "rejected"
    /\ UNCHANGED <<p_lcu, p_control, p_jit, p_dec, p_block>>
    /\ UNCHANGED <<mvars, qvars>>

\* op.decomposition()
PDecompose ==
    /\ p_pc = "constructed"
    /\ p_dec' \in PrepSelPrep_compute_decomposition(p_op.hyperparameters.lcu,
                                                    p_op.hyperparameters.control,
                                                    p_op.hyperparameters.jit)
    /\ p_pc' = IF p_dec'.status = "ok" THEN "decomposed" ELSE "failed"
    /\ UNCHANGED <<p_lcu, p_control, p_jit, p_op, p_block>>
    /\ UNCHANGED <<mvars, qvars>>

\* qml.matrix of the decomposition, restricted to its top-left block, for an
\* operator built without jit
PMatrix ==
    /\ p_pc = "decomposed"
    /\ ~p_op.hyperparameters.jit
    /\ p_block' = TopLeftBlock(p_dec.op_list, TargetWires(p_control))
    /\ p_pc' = "matrix"
    /\ UNCHANGED <<p_lcu, p_control, p_jit, p_op, p_dec>>
    /\ UNCHANGED <<mvars, qvars>>

PNext ==
    \/ PConstruct
    \/ PDecompose
    \/ PMatrix

SpecPrepSelPrep == PInit /\ [][PNext]_vars

(***************************************************************************)
(* Claims about Multiplier.                                                *)
(***************************************************************************)
hp == op.hyperparameters

WorkWiresAllZero == \A i \in 1..Len(hp.work_wires) : reg[hp.work_wires[i]] = 0

\* The fewest work wires __init__ accepts for these x_wires and mod.
MinWorkWires == IF hp.mod # 2 ^ Len(hp.x_wires) THEN Len(hp.x_wires) + 2 ELSE Len(hp.x_wires)

\* C1: for every accepted configuration (work registers longer than the
\* minimum included) and every 0 <= x < mod, running the decomposition on
\* x-register = x, work wires = 0 ends with x-register = (x * k) mod mod and
\* every work wire 0.
C1_MultiplierComputes ==
    pc = "done" =>
        /\ RegValue(reg, hp.x_wires) = (x_in * hp.k) % hp.mod
        /\ WorkWiresAllZero

\* The same statement for work registers of exactly the required size, and
\* for mod = 2^len(x_wires) with any size: there the decomposition is right.
C1_HoldsWithoutSpareWires ==
    (pc = "done" /\ (Len(hp.work_wires) = MinWorkWires \/ hp.mod = 2 ^ Len(hp.x_wires))) =>
        /\ RegValue(reg, hp.x_wires) = (x_in * hp.k) % hp.mod
        /\ WorkWiresAllZero

C1_Witness ==
    /\ pc = "done"
    /\ Len(hp.work_wires) > MinWorkWires
    /\ x_in > 0

\* What the caller passed, read without the constructor's help.
ArgN == Len(args.x_wires)
ArgMod == IF args.mod = None THEN 2 ^ ArgN ELSE args.mod[1]
ArgShared == { args.x_wires[i] : i \in 1..ArgN }
                 \cap { args.work_wires[i] : i \in 1..Len(args.work_wires) }
Coprime(a, b) == \A d \in 2..(IF a > b THEN a ELSE b) : ~(a % d = 0 /\ b % d = 0)
Constructed == op.status = "ok"
Rejected == op.status = "ValueError"

\* C2: construction reduces k modulo mod; it fails with a ValueError whenever
\* gcd(k mod mod, mod) # 1; whenever it succeeds the stored k satisfies
\* 0 <= k < mod and gcd(k, mod) = 1.
C2_KReducedAndCoprime ==
    pc # "new" =>
        /\ ~Coprime(args.k % ArgMod, ArgMod) => Rejected
        /\ Constructed =>
              /\ hp.k = args.k % hp.mod
              /\ 0 <= hp.k /\ hp.k < hp.mod
              /\ Coprime(hp.k, hp.mod)

\* k = 2, mod = 4 is turned down for want of an inverse, and a k outside
\* 0..mod-1 has been accepted and reduced.
C2_Witness ==
    \/ /\ Rejected /\ args.k = 2 /\ args.mod = <<4>>
       /\ op.msg = "The operator cannot be built because k has no inverse modulo mod."
    \/ /\ Constructed /\ args.k < 0 /\ hp.mod = 3 /\ hp.k = 2

\* C3: construction fails with a ValueError whenever a wire is in both
\* x_wires and work_wires, whatever k and mod; no instance shares a wire.
C3_NoSharedWire ==
    pc # "new" =>
        /\ ArgShared # {} => Rejected
        /\ Constructed =>
              { hp.x_wires[i] : i \in 1..Len(hp.x_wires) }
                 \cap { hp.work_wires[i] : i \in 1..Len(hp.work_wires) } = {}

\* A shared wire is turned down although size, modulus and k are all fine.
C3_Witness ==
    /\ Rejected
    /\ ArgShared # {}
    /\ args.x_wires[1] \notin ArgShared
    /\ Len(args.work_wires) >= ArgN + 2
    /\ ArgMod <= 2 ^ ArgN
    /\ Coprime(args.k % ArgMod, ArgMod)
    /\ op.msg = "None of the wire in work_wires should be included in x_wires."

\* C4: with n = len(x_wires) and an omitted mod counting as 2^n: if mod # 2^n,
\* fewer than n + 2 work wires are rejected; if mod = 2^n, fewer than n work
\* wires are rejected and exactly n are accepted when the other checks pass.
C4_WorkRegisterSize ==
    pc # "new" =>
        /\ (ArgMod # 2 ^ ArgN /\ Len(args.work_wires) < ArgN + 2) => Rejected
        /\ (ArgMod = 2 ^ ArgN /\ Len(args.work_wires) < ArgN) => Rejected
        /\ (/\ ArgMod = 2 ^ ArgN
            /\ Len(args.work_wires) = ArgN
            /\ ArgShared = {}
            /\ Coprime(args.k % ArgMod, ArgMod)) => Constructed

\* n + 1 work wires with mod # 2^n are turned down with nothing else wrong.
C4_Witness ==
    /\ Rejected
    /\ ArgMod < 2 ^ ArgN
    /\ Len(args.work_wires) = ArgN + 1
    /\ ArgShared = {}
    /\ Coprime(args.k % ArgMod, ArgMod)
    /\ op.msg = "Multiplier needs as many work_wires as x_wires plus two."

\* C5: construction fails with a ValueError whenever mod > 2^len(x_wires);
\* every constructed Multiplier satisfies 2^len(x_wires) >= mod.
C5_ModFitsXRegister ==
    pc # "new" =>
        /\ ArgMod > 2 ^ ArgN => Rejected
        /\ Constructed => 2 ^ Len(hp.x_wires) >= hp.mod

\* A modulus too large for x_wires is turned down with nothing else wrong.
C5_Witness ==
    /\ Rejected
    /\ ArgMod > 2 ^ ArgN
    /\ Len(args.work_wires) >= ArgN + 2
    /\ ArgShared = {}
    /\ Coprime(args.k % ArgMod, ArgMod)
    /\ op.msg = "Multiplier must have enough wires to represent mod."

\* C6: every accepted argument tuple decomposes without raising, into a
\* finite operator list; in particular pow(k, -1, mod) exists for the
\* stored k and mod.
C6_DecompositionTotal ==
    /\ pc # "failed"
    /\ Constructed => \E v \in 0..(hp.mod - 1) : (hp.k * v) % hp.mod = 1 % hp.mod
    /\ pc \in {"decomposed", "running", "done"} =>
          /\ dec.status = "ok"
          /\ Len(dec.op_list) \in Nat

C6_Witness ==
    /\ pc = "decomposed"
    /\ hp.mod = 3
    /\ hp.k = 2
    /\ args.k # hp.k

\* The auxiliary register and the wires swapped with x_wires, read off the
\* stored work_wires: the first n work wires when mod = 2^n; otherwise every
\* work wire but the first, swapping from the third work wire on.
ExpAux ==
    IF hp.mod = 2 ^ Len(hp.x_wires)
    THEN SubSeq(hp.work_wires, 1, Len(hp.x_wires))
    ELSE SubSeq(hp.work_wires, 2, Len(hp.work_wires))
ExpWorkWire ==
    IF hp.mod = 2 ^ Len(hp.x_wires) THEN None ELSE <<hp.work_wires[1]>>
ExpSwapWire(i) ==
    IF hp.mod = 2 ^ Len(hp.x_wires) THEN hp.work_wires[i] ELSE hp.work_wires[i + 2]

\* The order C7 describes, for an inverse inv_k of k.
DecompositionInOrder(inv_k) ==
    LET n   == Len(hp.x_wires)
        ops == dec.op_list
        sub(kk) == [name |-> "ControlledSequence",
                    base |-> [name |-> "PhaseAdder", k |-> kk, x_wires |-> ExpAux,
                              mod |-> hp.mod, work_wire |-> ExpWorkWire],
                    control |-> hp.x_wires]
        qft == [name |-> "QFT", wires |-> ExpAux]
        adj(o) == [name |-> "Adjoint", base |-> o]
    IN  /\ Len(ops) = 6 + n
        /\ ops[1] = qft
        /\ ops[2] = sub(hp.k)
        /\ ops[3] = adj(qft)
        /\ \A i \in 1..n :
              ops[3 + i] = [name |-> "SWAP", wires |-> <<hp.x_wires[i], ExpSwapWire(i)>>]
        /\ ops[n + 4] = adj(adj(qft))
        /\ ops[n + 5] = adj(sub(inv_k))
        /\ ops[n + 6] = adj(qft)

C14_FlattenUnflattenRoundTrip ==
    pc = "unflattened" =>
        /\ op2.status = "ok"
        /\ op2.hyperparameters.k = op.hyperparameters.k
        /\ op2.hyperparameters.mod = op.hyperparameters.mod
        /\ op2.hyperparameters.x_wires = op.hyperparameters.x_wires
        /\ op2.hyperparameters.work_wires = op.hyperparameters.work_wires
        /\ Multiplier_wires(op2) = Multiplier_wires(op)
        /\ Multiplier_wires(op2) = op.hyperparameters.x_wires \o op.hyperparameters.work_wires
        /\ op2.wires = op.wires

\* An operator built with a k that was reduced and with the default mod went
\* through the round trip.
C14_Witness ==
    /\ pc = "unflattened"
    /\ args.k # op.hyperparameters.k
    /\ args.mod = None
    /\ Len(args.work_wires) > Len(args.x_wires)
    /\ op2.status = "ok"

\* The auxiliary register and the phase adder's work wire, read off the
\* operators of the decomposition: the wires of the first QFT and the
\* work_wire of the PhaseAdder inside the ControlledSequence.
DecAux == dec.op_list[1].wires
DecWorkWire == dec.op_list[2].base.work_wire

\* C19 as stated: with n = len(x_wires), when mod = 2^n no work wire is
\* passed to the phase adder and the auxiliary register is the first n work
\* wires; when mod # 2^n exactly one work wire is passed to the phase adder
\* and the auxiliary register is n + 2 wires wide.
C19_PartitionAsStated ==
    pc = "decomposed" =>
        LET n == Len(hp.x_wires)
        IN  /\ hp.mod = 2 ^ n =>
                   /\ DecWorkWire = None
                   /\ Len(DecAux) = n
                   /\ DecAux = SubSeq(hp.work_wires, 1, n)
            /\ hp.mod # 2 ^ n =>
                   /\ Len(DecWorkWire) = 1
                   /\ InSeq(DecWorkWire[1], hp.work_wires)
                   /\ Len(DecAux) = n + 2

\* C19: with n = len(x_wires), when mod = 2^n no work wire is passed to the
\* phase adder and the auxiliary register is the first n work wires; when
\* mod # 2^n the first work wire, and only it, is passed to the phase adder
\* and the auxiliary register is every other work wire: len(work_wires) - 1
\* wires, at least n + 1, and n + 1 for the required n + 2 work wires.
C19_Partition ==
    pc = "decomposed" =>
        LET n == Len(hp.x_wires)
        IN  /\ hp.mod = 2 ^ n =>
                   /\ DecWorkWire = None
                   /\ Len(DecAux) = n
                   /\ DecAux = SubSeq(hp.work_wires, 1, n)
            /\ hp.mod # 2 ^ n =>
                   /\ DecWorkWire = <<hp.work_wires[1]>>
                   /\ DecAux = SubSeq(hp.work_wires, 2, Len(hp.work_wires))
                   /\ Len(DecAux) = Len(hp.work_wires) - 1
                   /\ Len(DecAux) >= n + 1
                   /\ Len(hp.work_wires) = n + 2 => Len(DecAux) = n + 1

\* A decomposition for mod # 2^n over exactly n + 2 work wires: the
\* auxiliary register has n + 1 wires.
C19_Witness ==
    /\ pc = "decomposed"
    /\ hp.mod # 2 ^ Len(hp.x_wires)
    /\ Len(hp.work_wires) = Len(hp.x_wires) + 2
    /\ Len(DecAux) = Len(hp.x_wires) + 1
    /\ Len(DecWorkWire) = 1

(***************************************************************************)
(* Claims about the qutrit operations.                                     *)
(***************************************************************************)
\* C8: for every integer z, negative included, pow(z) of TShift, TClock and
\* TAdd returns what pow(z mod 3) returns, and [op.adjoint()] when
\* z mod 3 = 2; pow(z) of TSWAP returns what pow(z mod 2) returns.
C8_PowDependsOnResidue ==
    q_pc = "pow" =>
        IF q_op.name = "TSWAP"
        THEN q_pow = pow(q_op, q_z % 2)
        ELSE /\ q_pow = pow(q_op, q_z % 3)
             /\ q_z % 3 = 2 => q_pow = <<adjoint(q_op)>>

\* A negative exponent congruent to 2 has given the adjoint.
C8_Witness ==
    /\ q_pc = "pow"
    /\ q_op.name = "TShift"
    /\ q_z < 0
    /\ q_z % 3 = 2
    /\ q_pow = <<[name |-> "TShift", wires |-> q_op.wires, inverse |-> ~q_op.inverse]>>

RECURSIVE MatPowVec(_, _, _)
MatPowVec(M, v, i) == IF i = 0 THEN v ELSE MatVec(M, MatPowVec(M, v, i - 1))

\* |i> (x) v for a qutrit vector v
Tensor(i, v) == [r \in 1..9 |-> IF (r - 1) \div 3 = i THEN v[((r - 1) % 3) + 1] ELSE 0]

\* C9: TAdd.compute_matrix maps |i>|j> (column 3i + j) to |i>|(i + j) mod 3>;
\* equivalently it applies TShift i times to the second qutrit, the first
\* wire being the control.
C9_TAddAddsControlToTarget ==
    (q_pc = "matrix" /\ q_op.name = "TAdd") =>
        LET i == q_col \div 3
            j == q_col % 3
        IN  /\ q_img = Basis(9, 3 * i + ((i + j) % 3))
            /\ q_img = Tensor(i, MatPowVec(TShift_compute_matrix, Basis(3, j), i))
            /\ TAdd_control_wires(q_op) = <<q_op.wires[1]>>

\* |1>|2> has been sent to |1>|0>.
C9_Witness ==
    /\ q_pc = "matrix"
    /\ q_op.name = "TAdd"
    /\ q_col = 5
    /\ q_img = <<0, 0, 0, 1, 0, 0, 0, 0, 0>>

\* C10: TSWAP.compute_matrix maps |i,j> to |j,i>, and its square is the
\* 9x9 identity (applied twice, it gives every basis state back).
C10_TSWAPSwapsAndIsInvolution ==
    (q_pc = "matrix" /\ q_op.name = "TSWAP") =>
        LET i == q_col \div 3
            j == q_col % 3
        IN  /\ q_img = Basis(9, 3 * j + i)
            /\ q_img2 = Basis(9, q_col)

\* |1,2> has been sent to |2,1> and back.
C10_Witness ==
    /\ q_pc = "matrix"
    /\ q_op.name = "TSWAP"
    /\ q_col = 5
    /\ q_img = <<0, 0, 0, 0, 0, 0, 0, 1, 0>>
    /\ q_img2 = <<0, 0, 0, 0, 0, 1, 0, 0, 0>>

\* C11 as stated: for every class, TSWAP included, and either inverse flag,
\* adjoint() returns an instance of the class over the same wires whose
\* inverse flag is the negation of the original's, and the original keeps
\* its wires and its flag.
C11_AdjointTogglesFlag ==
    [][QAdjoint =>
          /\ q_adj'.name = q_op.name
          /\ q_adj'.wires = q_op.wires
          /\ q_adj'.inverse = ~q_op.inverse
          /\ q_op' = q_op]_vars

\* C11: for TShift, TClock and TAdd and either inverse flag, adjoint()
\* returns an instance of the class over the same wires whose inverse flag
\* is the negation of the original's; TSWAP.adjoint() returns a TSWAP over
\* the same wires whose flag is unset whatever the original's; the original
\* keeps its wires and its flag in every case.
C11_AdjointOfEachClass ==
    [][QAdjoint =>
          /\ q_adj'.name = q_op.name
          /\ q_adj'.wires = q_op.wires
          /\ q_adj'.inverse = (IF q_op.name = "TSWAP" THEN FALSE ELSE ~q_op.inverse)
          /\ q_op' = q_op]_vars

\* adjoint() was called on a TAdd whose flag was set: the result's is unset.
C11_Witness ==
    /\ q_pc = "adjoint"
    /\ q_op.name = "TAdd"
    /\ q_op.inverse
    /\ ~q_adj.inverse
    /\ q_adj.wires = q_op.wires

\* C12: for every class and either inverse flag, op.adjoint().adjoint() acts
\* on the same wires as op and has the same matrix, that is the same action
\* on every basis state.
C12_AdjointIsInvolution ==
    q_pc = "adjoint" =>
        /\ q_adj2.wires = q_op.wires
        /\ matrix(q_adj2) = matrix(q_op)

\* The adjoint was taken twice of a TClock whose flag is set, so that its
\* matrix is not the canonical one, and the adjoint's matrix is another.
C12_Witness ==
    /\ q_pc = "adjoint"
    /\ q_op.name = "TClock"
    /\ q_op.inverse
    /\ matrix(q_op) # canonical_matrix(q_op)
    /\ matrix(q_adj) # matrix(q_op)
    /\ matrix(q_adj2) = matrix(q_op)

(***************************************************************************)
(* The spectrum of a matrix with one nonzero entry in each row and column. *)
(* Column c is sent to row Image(M, c); on a cycle of length L whose       *)
(* entries multiply to p the characteristic polynomial is x^L - p, so the  *)
(* eigenvalues of the cycle are the L solutions of x^L = p.                *)
(***************************************************************************)
IsMonomial(M) ==
    /\ \A c \in 1..Len(M) : Cardinality({r \in 1..Len(M) : M[r][c] # CZero}) = 1
    /\ \A r \in 1..Len(M) : Cardinality({c \in 1..Len(M) : M[r][c] # CZero}) = 1

Image(M, c) == CHOOSE r \in 1..Len(M) : M[r][c] # CZero

RECURSIVE IterImage(_, _, _)
IterImage(M, c, t) == IF t = 0 THEN c ELSE Image(M, IterImage(M, c, t - 1))

CycleLen(M, c) ==
    CHOOSE L \in 1..Len(M) :
        /\ IterImage(M, c, L) = c
        /\ \A j \in 1..(L - 1) : IterImage(M, c, j) # c

\* c is the least column of its cycle
IsCycleStart(M, c) == \A t \in 1..CycleLen(M, c) : IterImage(M, c, t) >= c

RECURSIVE CyclePhase(_, _, _)
CyclePhase(M, c, t) ==
    IF t = 0 THEN COne
    ELSE CMul(CyclePhase(M, c, t - 1), M[IterImage(M, c, t)][IterImage(M, c, t - 1)])

\* the number of cycles of M that have lambda among their eigenvalues
Multiplicity(M, lambda) ==
    Cardinality({c \in 1..Len(M) :
                    /\ IsCycleStart(M, c)
                    /\ CPow(lambda, CycleLen(M, c)) = CyclePhase(M, c, CycleLen(M, c))})

\* 1, -1, w, -w, w^2, -w^2: every root of x^L = p for the cycles met here
SixthRoots ==
    {COne, CNeg(COne), OMEGA, CNeg(OMEGA), CPow(OMEGA, 2), CNeg(CPow(OMEGA, 2))}

Count(list, x) == Cardinality({i \in 1..Len(list) : list[i] = x})

\* C13: for each class the list compute_eigvals returns is, as a multiset,
\* the spectrum of the matrix compute_matrix returns: TShift each cube root
\* of unity once, TClock its diagonal 1, w, w^2, TAdd 1 five times and w and
\* w^2 twice each, TSWAP +1 six times and -1 three times.
C13_EigvalsAreSpectrum ==
    q_pc = "eigvals" =>
        LET M == canonical_matrix(q_op)
        IN  /\ IsMonomial(M)
            /\ Len(q_eig) = Len(M)
            /\ \A i \in 1..Len(q_eig) : q_eig[i] \in SixthRoots
            /\ \A x \in SixthRoots : Count(q_eig, x) = Multiplicity(M, x)
            /\ q_op.name \in {"TShift", "TClock"} =>
                   /\ Count(q_eig, COne) = 1
                   /\ Count(q_eig, OMEGA) = 1
                   /\ Count(q_eig, CPow(OMEGA, 2)) = 1
            /\ q_op.name = "TClock" => \A i \in 1..3 : q_eig[i] = M[i][i]
            /\ q_op.name = "TAdd" =>
                   /\ Count(q_eig, COne) = 5
                   /\ Count(q_eig, OMEGA) = 2
                   /\ Count(q_eig, CPow(OMEGA, 2)) = 2
            /\ q_op.name = "TSWAP" =>
                   /\ Count(q_eig, COne) = 6
                   /\ Count(q_eig, CNeg(COne)) = 3

\* The eigenvalues of a TAdd were computed: its matrix has three fixed
\* points and two 3-cycles.
C13_Witness ==
    /\ q_pc = "eigvals"
    /\ q_op.name = "TAdd"
    /\ Len(q_eig) = 9
    /\ LET M == canonical_matrix(q_op)
       IN  /\ Cardinality({c \in 1..9 : IsCycleStart(M, c) /\ CycleLen(M, c) = 1}) = 3
           /\ Cardinality({c \in 1..9 : IsCycleStart(M, c) /\ CycleLen(M, c) = 3}) = 2
\* The product of the matrices of a list of operators of dimension d.
RECURSIVE ListMatrix(_, _, _)
ListMatrix(ops, n, d) ==
    IF n = 0 THEN CIdentity(d) ELSE CMatMul(ListMatrix(ops, n - 1, d), matrix(ops[n]))

\* The z-th power of a unitary matrix, the inverse being the conjugate
\* transpose.
IntPow(M, z) == IF z >= 0 THEN CMatPow(M, z) ELSE CMatPow(ConjTranspose(M), 0 - z)

\* C20: for TShift, TClock and TAdd the matrix cubed is the identity and the
\* matrix squared is the inverse (adjoint) matrix; TSWAP's matrix squared is
\* the identity; so for every integer z and either inverse flag the product
\* of the operators pow(z) returns is the z-th power of the operator's
\* matrix, the identity for pow(0) and the matrix itself for pow(1).
C20_PowIsSound ==
    q_pc = "pow" =>
        LET M == matrix(q_op)
            I == CIdentity(Dim(q_op))
        IN  /\ CMatMul(M, ConjTranspose(M)) = I
            /\ q_op.name # "TSWAP" =>
                   /\ CMatPow(M, 3) = I
                   /\ CMatPow(M, 2) = ConjTranspose(M)
                   /\ CMatPow(M, 2) = matrix(adjoint(q_op))
            /\ q_op.name = "TSWAP" => CMatPow(M, 2) = I
            /\ q_pow # PowUndefined
            /\ ListMatrix(q_pow, Len(q_pow), Dim(q_op)) = IntPow(M, q_z)
            /\ q_z = 0 => q_pow = <<>>
            /\ q_z = 1 => q_pow = <<q_op>>

\* pow(-1) of a TClock whose flag is set returned its adjoint, whose matrix
\* is neither the identity nor the operator's.
C20_Witness ==
    /\ q_pc = "pow"
    /\ q_op.name = "TClock"
    /\ q_op.inverse
    /\ q_z = 0 - 1
    /\ Len(q_pow) = 1
    /\ matrix(q_pow[1]) # matrix(q_op)
    /\ matrix(q_pow[1]) # CIdentity(3)
(***************************************************************************)
(* Claims about PrepSelPrep.                                               *)
(***************************************************************************)
PControlSet == { p_control[i] : i \in 1..Len(p_control) }
PUnitaryWires ==
    UNION { { p_lcu.ops[j].wires[i] : i \in 1..Len(p_lcu.ops[j].wires) } :
            j \in 1..Len(p_lcu.ops) }

\* C15: construction fails with ValueError('Control wires should be
\* different from operation wires.') whenever a control wire is a wire of
\* one of the LCU's unitaries, so that no constructed instance has control
\* wires that meet the wires of its unitaries.
C15_ControlWiresDisjoint ==
    p_pc \notin {"idle", "new"} =>
        /\ PControlSet \cap PUnitaryWires # {} =>
               /\ p_pc = "rejected"
               /\ p_op = [status |-> "ValueError",
                          msg |-> "Control wires should be different from operation wires."]
        /\ p_op.status = "ok" => PControlSet \cap PUnitaryWires = {}

\* A construction was rejected where only the second control wire is shared,
\* and not with the first unitary.
C15_Witness ==
    /\ p_pc = "rejected"
    /\ p_control = <<0, 1>>
    /\ p_lcu.ops[1].wires = <<2>>
    /\ PControlSet \cap PUnitaryWires = {1}

PNumTerms == Len(p_lcu.coeffs)
PTermCountIsPowerOf2 == PNumTerms \in {1, 2, 4, 8}
PCoeffsNonNegativeReal ==
    \A i \in 1..PNumTerms : p_lcu.coeffs[i][2] = 0 /\ p_lcu.coeffs[i][1] >= 0
PSquaresSumToOne ==
    RSum([i \in 1..PNumTerms |-> RMul(p_lcu.coeffs[i], p_lcu.coeffs[i])], PNumTerms) = ROne
PFailedWith(msg) == p_pc = "failed" /\ p_dec = [status |-> "ValueError", msg |-> msg]

\* C16 as stated: with jit=True, constructing and decomposing fails with
\* 'Number of terms must be a power of 2.' when the term count is not a
\* power of two, with 'Coefficients must be positive real numbers.' when a
\* coefficient is complex or negative, and with 'Coefficients must have
\* norm 1.' when the squares of the coefficients do not sum to 1; an LCU
\* meeting all three conditions raises none of them.
C16_DiagnosticPerCondition ==
    (p_jit /\ p_pc \in {"decomposed", "failed"}) =>
        /\ ~PTermCountIsPowerOf2 => PFailedWith("Number of terms must be a power of 2.")
        /\ ~PCoeffsNonNegativeReal => PFailedWith("Coefficients must be positive real numbers.")
        /\ ~PSquaresSumToOne => PFailedWith("Coefficients must have norm 1.")
        /\ (PTermCountIsPowerOf2 /\ PCoeffsNonNegativeReal /\ PSquaresSumToOne) =>
               p_pc = "decomposed"

\* C16: with jit=True, constructing and decomposing fails exactly when one
\* of the three conditions is violated, with the diagnostic of a violated
\* condition: the power-of-2 one when only the term count is wrong among the
\* first two conditions, the positive-real one when only a coefficient is
\* complex or negative among them, one of these two when both are violated,
\* and the norm one when the term count is a power of two, every coefficient
\* is a non-negative real and the squares do not sum to 1; an LCU meeting
\* all three conditions raises none of them.
C16_DiagnosticOfAViolatedCondition ==
    (p_jit /\ p_pc \in {"decomposed", "failed"}) =>
        /\ (~PTermCountIsPowerOf2 /\ PCoeffsNonNegativeReal) =>
               PFailedWith("Number of terms must be a power of 2.")
        /\ (PTermCountIsPowerOf2 /\ ~PCoeffsNonNegativeReal) =>
               PFailedWith("Coefficients must be positive real numbers.")
        /\ (~PTermCountIsPowerOf2 /\ ~PCoeffsNonNegativeReal) =>
               \/ PFailedWith("Number of terms must be a power of 2.")
               \/ PFailedWith("Coefficients must be positive real numbers.")
        /\ (PTermCountIsPowerOf2 /\ PCoeffsNonNegativeReal /\ ~PSquaresSumToOne) =>
               PFailedWith("Coefficients must have norm 1.")
        /\ (PTermCountIsPowerOf2 /\ PCoeffsNonNegativeReal /\ PSquaresSumToOne) =>
               p_pc = "decomposed"

\* Three positive coefficients whose squares do not sum to 1: the failure
\* names the term count, not the norm.
C16_Witness ==
    /\ p_jit
    /\ PNumTerms = 3
    /\ PCoeffsNonNegativeReal
    /\ ~PSquaresSumToOne
    /\ PFailedWith("Number of terms must be a power of 2.")

\* C17: for an LCU with possibly negative or complex coefficients c_i, the
\* top-left block of the matrix of the decomposition, of the dimension of
\* the LCU's matrix, is the LCU's matrix divided by the sum of the |c_i|.
C17_BlockEncoding ==
    p_pc = "matrix" =>
        LET T   == TargetWires(p_control)
            A   == LCUMatrix(p_lcu, T)
            l1  == RSum([i \in 1..PNumTerms |-> RAbs(p_lcu.coeffs[i])], PNumTerms)
        IN  /\ Len(p_block) = Len(A)
            /\ \A r \in 1..Len(A) : \A c \in 1..Len(A) :
                   p_block[r][c] = RDiv(A[r][c], l1)

\* The block was computed for three terms among whose coefficients one is
\* negative and one complex, and it is not the LCU's matrix itself.
C17_Witness ==
    /\ p_pc = "matrix"
    /\ PNumTerms = 3
    /\ \E i \in 1..3 : p_lcu.coeffs[i][1] < 0
    /\ \E i \in 1..3 : p_lcu.coeffs[i][2] # 0
    /\ p_block # LCUMatrix(p_lcu, TargetWires(p_control))

====
